---- MODULE Spec2Model ----
(***************************************************************************)
(* SmartGateSystem (src/app.py): the licence-plate pipeline, the access    *)
(* decision of the /detection handler, the registry and access log kept in *)
(* SQLite, and the gate flag with its auto-close threads.                  *)
(*                                                                         *)
(* Texts are sequences of one-character strings.  An optional value is a   *)
(* sequence of length 0 (Python's None) or 1 (the value).                  *)
(*                                                                         *)
(* Spec is the whole program.  Its state space is the product of the       *)
(* clock, the registry, the log and the requests in flight, so the         *)
(* properties are checked under specifications that run a part of its      *)
(* actions from the same initial states: SpecGate (the gate, the clock and *)
(* the session), SpecUpload (uploads one at a time, the dashboard and the  *)
(* store's faults), SpecModel (concurrent uploads), SpecNormalize (the     *)
(* normalisation of one text) and SpecPipeline (the crop loop on one       *)
(* answer of the detector).  Every behaviour of the first four is a        *)
(* behaviour of Spec; the last two apply Normalize and ScanBoxes, which    *)
(* the actions of Spec use, to an input of their own.                      *)
(***************************************************************************)
EXTENDS Integers, Sequences, FiniteSets

(***************************************************************************)
(* Bounds of the model.                                                    *)
(***************************************************************************)
MaxTimers == 2
NumTasks == 2
MaxEmployees == 2
MaxLog == 2
MaxBoxes == 2
MaxAge == 2

(***************************************************************************)
(* Program constants.                                                      *)
(***************************************************************************)
AUTO_CLOSE_DELAY == 10
MIN_PLATE_LEN == 2
CROP_WIDTH_PERCENT == 85

None == <<>>
Some(v) == <<v>>
NULL == 0

(***************************************************************************)
(* Text normalisation: re.sub(r'[^A-Z0-9]', '', raw.upper()).              *)
(* The characters of the model are a sample of Unicode: some lower-case    *)
(* and upper-case ASCII letters, some digits, some punctuation, and the    *)
(* sharp s, whose upper-case form in Python is the two letters "SS".       *)
(***************************************************************************)
UpperLetters == {"A", "B", "S", "X", "Y", "Z"}
Digits == {"1", "2", "3", "4"}
PlateChars == UpperLetters \cup Digits

upper_char(c) ==
    CASE c = "a" -> <<"A">>
      [] c = "b" -> <<"B">>
      [] c = "s" -> <<"S">>
      [] c = "x" -> <<"X">>
      [] c = "y" -> <<"Y">>
      [] c = "z" -> <<"Z">>
      [] c = "ß" -> <<"S", "S">>
      [] OTHER -> <<c>>

RECURSIVE upper(_)
upper(s) == IF s = <<>> THEN <<>> ELSE upper_char(Head(s)) \o upper(Tail(s))

IsPlateChar(c) == c \in PlateChars

sub_non_plate(s) == SelectSeq(s, IsPlateChar)

\* Variant: the substitution without the upper-casing.
NormalizeNoUpper(raw) == sub_non_plate(raw)

\* Variant: the upper-casing without the substitution.
NormalizeNoStrip(raw) == upper(raw)

Normalize(raw) == sub_non_plate(upper(raw))

(***************************************************************************)
(* The state.                                                              *)
(***************************************************************************)
VARIABLES
    gate_state,     \* the global gate_state dict: [is_open |-> BOOLEAN]
    timers,         \* the _auto_close_gate threads still asleep: the time each has left, oldest first
    elapsed,        \* time since the most recent activate_gate(), saturating at AUTO_CLOSE_DELAY
    session,        \* the browser session: the set of its keys ({} or {"user"})
    response,       \* the response the handler that ran last is returning (None once delivered)
    employees,      \* table employees: rows [id, name, position]
    plates,         \* table plates: rows [plate_number, employee_id]
    next_id,        \* the id AUTOINCREMENT gives the next employee
    access_logs,    \* table access_logs, in log_id order: rows [employee_id, plate_number, action, details]
    store,          \* the database file: "ok", "unreachable" (every statement raises) or "locked" (writes raise)
    model_file,     \* os.path.exists(Config.MODEL_PATH)
    model,          \* the global model: None or the loaded detector
    model_loads,    \* how many times YOLO(Config.MODEL_PATH) has returned a detector
    pc,             \* where each request task is in the /detection handler
    local,          \* each request task's locals: active_model, text, crop_img
    timestamp,      \* each request task's timestamp local, which names its files: None, or how
                    \*   many seconds ago the second it shows began
    norm_in,        \* normalisation exercised on its own: the argument,
    norm_out,       \*   Normalize of it (None until computed),
    norm_twice,     \*   and Normalize of that (None until computed)
    scan_in,        \* the crop loop exercised on its own: the boxes the detector returned,
    scan_out        \*   and what the loop made of them (None until computed)

gate_vars == <<gate_state, timers, elapsed>>
norm_vars == <<norm_in, norm_out, norm_twice>>
scan_vars == <<scan_in, scan_out>>
db_vars == <<employees, plates, next_id, access_logs>>
model_vars == <<model_file, model, model_loads>>
task_vars == <<pc, local, timestamp>>
vars == <<gate_state, timers, elapsed, session, response, employees, plates, next_id,
          access_logs, store, model_file, model, model_loads, pc, local, timestamp,
          norm_in, norm_out, norm_twice, scan_in, scan_out>>

NoResponse == None

\* A response: the route that produced it, the HTTP status, and the template context
\* or JSON body it carries.
Reply(route, http, body) == Some([route |-> route, http |-> http, body |-> body])

Replied == response # NoResponse
Resp == response[1]

(***************************************************************************)
(* Gate hardware logic.                                                    *)
(***************************************************************************)
\* activate_gate(): set the flag and start one more _auto_close_gate thread.
GateOpened == [gate_state EXCEPT !.is_open = TRUE]

TimersArmed == Append(timers, AUTO_CLOSE_DELAY)

activate_gate ==
    /\ gate_state' = GateOpened
    /\ timers' = TimersArmed
    /\ elapsed' = 0

CanArm == Len(timers) < MaxTimers

\* One unit of time passes: every sleeping thread has one unit less to sleep.
Dec(n) == IF n > 0 THEN n - 1 ELSE 0

\* The seconds field of datetime.now() moves on with it.
CanAge == \A t \in DOMAIN timestamp : timestamp[t] # None => timestamp[t][1] < MaxAge

Older(ts) == IF ts = None THEN None ELSE Some(ts[1] + 1)

Tick ==
    /\ CanAge
    /\ timers' = [i \in 1..Len(timers) |-> Dec(timers[i])]
    /\ elapsed' = IF elapsed < AUTO_CLOSE_DELAY THEN elapsed + 1 ELSE elapsed
    /\ timestamp' = [t \in DOMAIN timestamp |-> Older(timestamp[t])]
    /\ UNCHANGED <<gate_state, session, response, db_vars, store, model_vars, pc, local,
                   norm_vars, scan_vars>>

\* _auto_close_gate(): a thread whose sleep is over clears the flag and ends.
Remove(s, i) == [j \in 1..(Len(s) - 1) |-> IF j < i THEN s[j] ELSE s[j + 1]]

\* Variant: the thread ends without clearing the flag.
GateLeftOpen == gate_state

GateClosed == [gate_state EXCEPT !.is_open = FALSE]

auto_close_gate ==
    \E i \in 1..Len(timers) :
        /\ timers[i] = 0
        /\ gate_state' = GateClosed
        /\ timers' = Remove(timers, i)
        /\ UNCHANGED <<elapsed, session, response, db_vars, store, model_vars, task_vars, norm_vars, scan_vars>>

(***************************************************************************)
(* Routes that need no database.                                           *)
(***************************************************************************)
Credentials == {<<"admin", "admin123">>, <<"admin", "wrong">>}

\* Variant: the session test always passing.
LoggedInAlways == TRUE

\* 'user' in session
LoggedIn == "user" \in session

login ==
    /\ ~Replied
    /\ \E method \in {"GET", "POST"}, cred \in Credentials :
        IF method = "POST" /\ cred = <<"admin", "admin123">>
        THEN /\ session' = session \cup {"user"}
             /\ response' = Reply("login", 302, "detection")
        ELSE /\ session' = session
             /\ response' = Reply("login", 200,
                                  IF method = "POST" THEN "Invalid Credentials" ELSE "login.html")
    /\ UNCHANGED <<gate_vars, db_vars, store, model_vars, task_vars, norm_vars, scan_vars>>

logout ==
    /\ ~Replied
    /\ session' = {}
    /\ response' = Reply("logout", 302, "login")
    /\ UNCHANGED <<gate_vars, db_vars, store, model_vars, task_vars, norm_vars, scan_vars>>

gate_view ==
    /\ ~Replied
    /\ response' = IF LoggedIn THEN Reply("gate", 200, "gate.html")
                               ELSE Reply("gate", 302, "login")
    /\ UNCHANGED <<gate_vars, session, db_vars, store, model_vars, task_vars, norm_vars, scan_vars>>

\* Variant: a read that also clears the flag.
api_gate_status_clearing ==
    /\ ~Replied
    /\ response' = Reply("api_gate_status", 200, gate_state)
    /\ gate_state' = GateClosed
    /\ UNCHANGED <<timers, elapsed, session, db_vars, store, model_vars, task_vars, norm_vars, scan_vars>>

api_gate_status ==
    /\ ~Replied
    /\ response' = Reply("api_gate_status", 200, gate_state)
    /\ UNCHANGED <<gate_vars, session, db_vars, store, model_vars, task_vars, norm_vars, scan_vars>>

api_trigger_gate ==
    /\ ~Replied
    /\ IF LoggedIn
       THEN /\ CanArm
            /\ activate_gate
            /\ response' = Reply("api_trigger_gate", 200, "opened")
       ELSE /\ UNCHANGED gate_vars
            /\ response' = Reply("api_trigger_gate", 401, "error")
    /\ UNCHANGED <<session, db_vars, store, model_vars, task_vars, norm_vars, scan_vars>>

\* The client receives the response: the request is over.
deliver ==
    /\ Replied
    /\ response' = NoResponse
    /\ UNCHANGED <<gate_vars, session, db_vars, store, model_vars, task_vars, norm_vars, scan_vars>>

(***************************************************************************)
(* The vision pipeline.                                                    *)
(***************************************************************************)
Tasks == 1..NumTasks

NoLocals == [active_model |-> None, text |-> None, crop_img |-> None]

\* What the OCR service can answer for one crop: the request raises (timeout,
\* connection, malformed JSON), the service reports IsErroredOnProcessing, it
\* returns no ParsedResults, or it returns a ParsedText.
OcrFailures == {"exception", "errored", "noresults"}
OcrTexts == {<<"a", "1">>, <<"a", "b", "-", "1">>, <<"x", "y", " ", "2">>}
OcrAnswers == [kind : OcrFailures, text : {<<>>}] \cup [kind : {"parsed"}, text : OcrTexts]

\* ocr_plate_text(image_path), given what the service answers.
ocr_plate_text(answer) ==
    IF answer.kind = "parsed" THEN Some(Normalize(answer.text)) ELSE None

\* The boxes the detector can return: the crop's width and height in pixels and
\* what the OCR service would answer for it.  The service is asked only about a
\* crop that was written, so the other shapes carry one answer.
UnreadShapes == {[w |-> 0, h |-> 30], [w |-> 1, h |-> 30]}
ReadShapes == {[w |-> 100, h |-> 30]}
Boxes == [shape : UnreadShapes, ocr : {[kind |-> "exception", text |-> <<>>]}]
            \cup [shape : ReadShapes, ocr : OcrAnswers]

RECURSIVE BoxSeqs(_)
BoxSeqs(n) ==
    IF n = 0 THEN {<<>>}
    ELSE LET shorter == BoxSeqs(n - 1)
         IN shorter \cup {Append(s, b) : s \in {q \in shorter : Len(q) = n - 1}, b \in Boxes}

Detections == BoxSeqs(MaxBoxes)

\* plate_crop.size == 0
IsEmptyCrop(shape) == shape.w * shape.h = 0

\* plate_crop[:, :int(w * Config.CROP_WIDTH_RATIO)]
RefinedWidth(w) == (w * CROP_WIDTH_PERCENT) \div 100

\* Variant: the length test off by one (len(detected) > 1).
AcceptsShort(detected) == detected # None /\ Len(detected[1]) >= MIN_PLATE_LEN

\* if detected and len(detected) > 2
Accepts(detected) == detected # None /\ Len(detected[1]) > MIN_PLATE_LEN

\* The loop over the boxes of process_upload.  crop is crop_filename so far, asked
\* the boxes whose crop has been sent to the OCR service so far.
\* cv2.imwrite raises cv2.error on an empty image, which a crop one pixel wide
\* is after the refinement.
RECURSIVE ScanBoxes(_, _, _)
ScanBoxes(boxes, crop, asked) ==
    IF boxes = <<>> THEN [error |-> None, text |-> None, crop_img |-> crop, asked |-> asked]
    ELSE LET box == Head(boxes)
             rest == Tail(boxes)
         IN  IF IsEmptyCrop(box.shape) THEN ScanBoxes(rest, crop, asked)
             ELSE IF RefinedWidth(box.shape.w) = 0
             THEN [error |-> Some("cv2.error"), text |-> None, crop_img |-> crop,
                   asked |-> asked]
             ELSE LET detected == ocr_plate_text(box.ocr)
                  IN  IF Accepts(detected)
                      THEN [error |-> None, text |-> detected, crop_img |-> Some("crop"),
                            asked |-> Append(asked, box)]
                      ELSE ScanBoxes(rest, Some("crop"), Append(asked, box))

\* datetime.datetime.now().strftime("%Y%m%d%H%M%S"): the current second.
Now == Some(0)

\* The request is over: its locals are gone.
Ended(t) == [timestamp EXCEPT ![t] = None]

\* /detection, up to the test of the global model in get_yolo_model().
Requests == {"GET", "POST without file", "POST empty filename", "POST file"}

EmptyContext ==
    [text |-> None, full_image |-> None, plate_image |-> None, status |-> "None",
     message |-> <<"None">>, css_class |-> "", gate_triggered |-> FALSE]

detection_begin(t) ==
    /\ pc[t] = "idle"
    /\ ~Replied
    /\ \E req \in Requests :
        IF ~LoggedIn
        THEN /\ response' = Reply("detection", 302, "login")
             /\ UNCHANGED <<pc, local, timestamp>>
        ELSE IF req # "POST file"
        THEN /\ response' = Reply("detection", 200, EmptyContext)
             /\ UNCHANGED <<pc, local, timestamp>>
        ELSE /\ response' = response
             /\ timestamp' = [timestamp EXCEPT ![t] = Now]
             /\ IF model = None /\ model_file
                THEN /\ pc' = [pc EXCEPT ![t] = "load"]
                     /\ local' = [local EXCEPT ![t] = NoLocals]
                ELSE /\ pc' = [pc EXCEPT ![t] = "detect"]
                     /\ local' = [local EXCEPT ![t] = [NoLocals EXCEPT !.active_model = model]]
    /\ UNCHANGED <<gate_vars, session, db_vars, store, model_vars, norm_vars, scan_vars>>

\* get_yolo_model(), from the call of YOLO(Config.MODEL_PATH) on: the load succeeds
\* and the global is assigned, or it raises and the global is left as it is.
get_yolo_model_load(t) ==
    /\ pc[t] = "load"
    /\ \E loaded \in BOOLEAN :
        /\ model' = IF loaded THEN Some("YOLO") ELSE model
        /\ model_loads' = IF loaded THEN model_loads + 1 ELSE model_loads
        /\ local' = [local EXCEPT ![t] = [NoLocals EXCEPT !.active_model = model']]
    /\ pc' = [pc EXCEPT ![t] = "detect"]
    /\ UNCHANGED <<gate_vars, session, response, db_vars, store, model_file, timestamp,
                   norm_vars, scan_vars>>

\* An exception nobody catches leaves the handler: Flask answers 500.
Unhandled(route, exception) == Reply(route, 500, exception)

\* process_upload(), after get_yolo_model().
process_upload(t) ==
    /\ pc[t] = "detect"
    /\ IF local[t].active_model = None
       THEN /\ pc' = [pc EXCEPT ![t] = "decide"]
            /\ local' = [local EXCEPT ![t] = NoLocals]
            /\ response' = response
            /\ timestamp' = timestamp
       ELSE \E readable \in BOOLEAN :
            IF ~readable
            THEN /\ pc' = [pc EXCEPT ![t] = "decide"]
                 /\ local' = [local EXCEPT ![t] = NoLocals]
                 /\ response' = response
                 /\ timestamp' = timestamp
            ELSE \/ /\ ~Replied
                    /\ pc' = [pc EXCEPT ![t] = "idle"]
                    /\ local' = [local EXCEPT ![t] = NoLocals]
                    /\ response' = Unhandled("detection", "detector")
                    /\ timestamp' = Ended(t)
                 \/ \E boxes \in Detections :
                    LET scan == ScanBoxes(boxes, None, <<>>)
                    IN  IF scan.error # None
                        THEN /\ ~Replied
                             /\ pc' = [pc EXCEPT ![t] = "idle"]
                             /\ local' = [local EXCEPT ![t] = NoLocals]
                             /\ response' = Unhandled("detection", scan.error[1])
                             /\ timestamp' = Ended(t)
                        ELSE /\ pc' = [pc EXCEPT ![t] = "decide"]
                             /\ local' = [local EXCEPT ![t] =
                                    [active_model |-> None, text |-> scan.text,
                                     crop_img |-> scan.crop_img]]
                             /\ response' = response
                             /\ timestamp' = timestamp
    /\ UNCHANGED <<gate_vars, session, db_vars, store, model_vars, norm_vars, scan_vars>>

(***************************************************************************)
(* The access decision: the rest of /detection.                            *)
(***************************************************************************)
\* SELECT e.name, p.employee_id FROM plates p JOIN employees e
\*   ON p.employee_id = e.id WHERE p.plate_number = ?   ... .fetchone()
JoinedRows(plate) ==
    {[name |-> pe[2].name, employee_id |-> pe[1].employee_id] :
        pe \in {q \in plates \X employees :
                    q[1].plate_number = plate /\ q[1].employee_id = q[2].id}}

find_employee(plate) ==
    IF JoinedRows(plate) = {} THEN None ELSE Some(CHOOSE row \in JoinedRows(plate) : TRUE)

\* The lookup as the handler sees it: the statement raises, or it returns a row or None.
\* Variant: a failing statement caught and taken for "no row".
LookupSwallowed(plate) ==
    IF store = "unreachable" THEN [raised |-> FALSE, row |-> None]
    ELSE [raised |-> FALSE, row |-> find_employee(plate)]

Lookup(plate) ==
    IF store = "unreachable" THEN [raised |-> TRUE, row |-> None]
    ELSE [raised |-> FALSE, row |-> find_employee(plate)]

\* The rows the handler inserts into access_logs.
EntryLog(employee_id, plate) ==
    [employee_id |-> employee_id, plate_number |-> plate, action |-> "ENTRY",
     details |-> "Automated Entry"]

\* Variant: the denial inserted without its action column, which defaults to ENTRY.
DeniedLogDefaultAction(plate) ==
    [employee_id |-> NULL, plate_number |-> plate, action |-> "ENTRY",
     details |-> "Unknown Vehicle"]

DeniedLog(plate) ==
    [employee_id |-> NULL, plate_number |-> plate, action |-> "DENIED",
     details |-> "Unknown Vehicle"]

\* The template context of each outcome.
FailedContext(crop_img) ==
    [text |-> None, full_image |-> Some("full"), plate_image |-> crop_img,
     status |-> "FAILED", message |-> <<"No Plate Detected">>,
     css_class |-> "status-denied", gate_triggered |-> FALSE]

GrantedContext(text, crop_img, name) ==
    [text |-> text, full_image |-> Some("full"), plate_image |-> crop_img,
     status |-> "GRANTED", message |-> <<"Authorized: ", name>>,
     css_class |-> "status-granted", gate_triggered |-> TRUE]

\* Variant: the denial branch leaving the default status in place.
DeniedContextAsFailed(text, crop_img) ==
    [text |-> text, full_image |-> Some("full"), plate_image |-> crop_img,
     status |-> "FAILED", message |-> <<"Unregistered Vehicle">>,
     css_class |-> "status-denied", gate_triggered |-> FALSE]

DeniedContext(text, crop_img) ==
    [text |-> text, full_image |-> Some("full"), plate_image |-> crop_img,
     status |-> "DENIED", message |-> <<"Unregistered Vehicle">>,
     css_class |-> "status-denied", gate_triggered |-> FALSE]

\* Whether the handler calls activate_gate(): if text: ... if employee: ...
\* Variant: the gate triggered on any recognised text.
TriggersOnAnyText(text, row) == text # None

Triggers(text, row) == text # None /\ row # None

CanLog == Len(access_logs) < MaxLog

\* Variant: the row written over the newest row of the table.
OverwriteLog(row) ==
    IF access_logs = <<>> THEN <<row>> ELSE [access_logs EXCEPT ![Len(access_logs)] = row]

\* INSERT INTO access_logs: log_id AUTOINCREMENT puts the row after every other.
AppendLog(row) == Append(access_logs, row)

decide(t) ==
    /\ pc[t] = "decide"
    /\ ~Replied
    /\ LET text == local[t].text
           crop_img == local[t].crop_img
       IN  IF text = None
           THEN /\ response' = Reply("detection", 200, FailedContext(crop_img))
                /\ UNCHANGED <<gate_vars, access_logs>>
           ELSE LET found == Lookup(text[1])
                IN  IF found.raised
                    THEN /\ response' = Unhandled("detection", "sqlite3.OperationalError")
                         /\ UNCHANGED <<gate_vars, access_logs>>
                    ELSE /\ IF Triggers(text, found.row)
                            THEN CanArm /\ activate_gate
                            ELSE UNCHANGED gate_vars
                         /\ IF store = "locked"
                            THEN /\ response' = Unhandled("detection", "sqlite3.OperationalError")
                                 /\ UNCHANGED access_logs
                            ELSE /\ CanLog
                                 /\ IF found.row # None
                                    THEN /\ access_logs' = AppendLog(
                                                EntryLog(found.row[1].employee_id, text[1]))
                                         /\ response' = Reply("detection", 200,
                                                GrantedContext(text, crop_img, found.row[1].name))
                                    ELSE /\ access_logs' = AppendLog(DeniedLog(text[1]))
                                         /\ response' = Reply("detection", 200,
                                                DeniedContext(text, crop_img))
    /\ pc' = [pc EXCEPT ![t] = "idle"]
    /\ local' = [local EXCEPT ![t] = NoLocals]
    /\ timestamp' = Ended(t)
    /\ UNCHANGED <<session, employees, plates, next_id, store, model_vars, norm_vars, scan_vars>>

(***************************************************************************)
(* The admin dashboard.                                                    *)
(***************************************************************************)
Names == {"Ann"}
Positions == {"Guard"}
FormPlates == {<<>>, <<"a", "b", "-", "1">>}
EmployeeIds == 1..MaxEmployees

\* INSERT INTO employees ...; INSERT INTO plates ... (if plate); commit.
\* A plate_number already in the table violates the primary key: the statement
\* raises, nothing is committed and the connection is closed at teardown.
add_employee(name, position, raw_plate) ==
    LET plate == Normalize(raw_plate)
        eid == next_id
    IN  /\ next_id <= MaxEmployees
        /\ IF store # "ok"
           THEN /\ response' = Unhandled("dashboard", "sqlite3.OperationalError")
                /\ UNCHANGED <<employees, plates, next_id>>
           ELSE IF plate # <<>> /\ \E p \in plates : p.plate_number = plate
           THEN /\ response' = Unhandled("dashboard", "sqlite3.IntegrityError")
                /\ UNCHANGED <<employees, plates, next_id>>
           ELSE /\ employees' = employees \cup
                        {[id |-> eid, name |-> name, position |-> position]}
                /\ plates' = IF plate # <<>>
                             THEN plates \cup {[plate_number |-> plate, employee_id |-> eid]}
                             ELSE plates
                /\ next_id' = next_id + 1
                /\ response' = Reply("dashboard", 200, "dashboard.html")

\* Variant: the employee deleted and the plates table left alone.
delete_employee_only(delete_id) ==
    IF store # "ok"
    THEN /\ response' = Unhandled("dashboard", "sqlite3.OperationalError")
         /\ UNCHANGED <<employees, plates, next_id>>
    ELSE /\ employees' = {e \in employees : e.id # delete_id}
         /\ plates' = plates
         /\ next_id' = next_id
         /\ response' = Reply("dashboard", 302, "dashboard")

\* DELETE FROM employees WHERE id = ?; DELETE FROM plates WHERE employee_id = ?; commit.
delete_employee(delete_id) ==
    IF store # "ok"
    THEN /\ response' = Unhandled("dashboard", "sqlite3.OperationalError")
         /\ UNCHANGED <<employees, plates, next_id>>
    ELSE /\ employees' = {e \in employees : e.id # delete_id}
         /\ plates' = {p \in plates : p.employee_id # delete_id}
         /\ next_id' = next_id
         /\ response' = Reply("dashboard", 302, "dashboard")

dashboard ==
    /\ ~Replied
    /\ IF ~LoggedIn
       THEN /\ response' = Reply("dashboard", 302, "login")
            /\ UNCHANGED <<employees, plates, next_id>>
       ELSE \/ /\ response' = IF store = "unreachable"
                              THEN Unhandled("dashboard", "sqlite3.OperationalError")
                              ELSE Reply("dashboard", 200, "dashboard.html")
               /\ UNCHANGED <<employees, plates, next_id>>
            \/ \E name \in Names, position \in Positions, raw_plate \in FormPlates :
                    add_employee(name, position, raw_plate)
            \/ \E delete_id \in EmployeeIds : delete_employee(delete_id)
    /\ UNCHANGED <<gate_vars, session, access_logs, store, model_vars, task_vars, norm_vars, scan_vars>>

\* The database file becomes unreachable or locked, or works again.
store_fault ==
    /\ \E s \in {"ok", "unreachable", "locked"} : s # store /\ store' = s
    /\ UNCHANGED <<gate_vars, session, response, db_vars, model_vars, task_vars, norm_vars, scan_vars>>

(***************************************************************************)
(* Normalisation on its own.                                               *)
(***************************************************************************)
NormChars == {"a", "B", "1", "-", "ß"}
MaxNormLen == 3

RECURSIVE SeqsUpTo(_, _)
SeqsUpTo(S, n) ==
    IF n = 0 THEN {<<>>}
    ELSE LET shorter == SeqsUpTo(S, n - 1)
         IN shorter \cup {Append(s, c) : s \in shorter, c \in S}

\* "ab-12 34!" and its normal form "AB1234".
ExampleRaw == <<"a", "b", "-", "1", "2", " ", "3", "4", "!">>
ExampleNormal == <<"A", "B", "1", "2", "3", "4">>

NormInputs == SeqsUpTo(NormChars, MaxNormLen) \cup {ExampleRaw}

normalize_once ==
    /\ norm_out = None
    /\ norm_out' = Some(Normalize(norm_in))
    /\ UNCHANGED <<gate_vars, session, response, db_vars, store, model_vars, task_vars, norm_in, norm_twice, scan_vars>>

normalize_again ==
    /\ norm_out # None
    /\ norm_twice = None
    /\ norm_twice' = Some(Normalize(norm_out[1]))
    /\ UNCHANGED <<gate_vars, session, response, db_vars, store, model_vars, task_vars, norm_in, norm_out, scan_vars>>

(***************************************************************************)
(* The crop loop on its own.                                               *)
(***************************************************************************)
scan_boxes ==
    /\ scan_out = None
    /\ scan_out' = Some(ScanBoxes(scan_in, None, <<>>))
    /\ UNCHANGED <<gate_vars, session, response, db_vars, store, model_vars, task_vars,
                   norm_vars, scan_in>>

(***************************************************************************)
(* Specifications.                                                         *)
(***************************************************************************)
Init ==
    /\ gate_state = [is_open |-> FALSE]
    /\ timers = <<>>
    /\ elapsed = AUTO_CLOSE_DELAY
    /\ session = {}
    /\ response = NoResponse
    /\ employees = {}
    /\ plates = {}
    /\ next_id = 1
    /\ access_logs = <<>>
    /\ store = "ok"
    /\ model_file \in BOOLEAN
    /\ model = None
    /\ model_loads = 0
    /\ pc = [t \in Tasks |-> "idle"]
    /\ local = [t \in Tasks |-> NoLocals]
    /\ timestamp = [t \in Tasks |-> None]
    /\ norm_in = <<>>
    /\ norm_out = None
    /\ norm_twice = None
    /\ scan_in = <<>>
    /\ scan_out = None

\* Every operation.
Next ==
    \/ login
    \/ logout
    \/ gate_view
    \/ api_gate_status
    \/ api_trigger_gate
    \/ dashboard
    \/ deliver
    \/ Tick
    \/ auto_close_gate
    \/ store_fault
    \/ \E t \in Tasks : detection_begin(t)
    \/ \E t \in Tasks : get_yolo_model_load(t)
    \/ \E t \in Tasks : process_upload(t)
    \/ \E t \in Tasks : decide(t)

Spec == Init /\ [][Next]_vars

\* The gate, the clock and the session.
NextGate ==
    \/ login
    \/ logout
    \/ gate_view
    \/ api_gate_status
    \/ api_trigger_gate
    \/ deliver
    \/ Tick
    \/ auto_close_gate

SpecGate == Init /\ [][NextGate]_vars

\* Time passes, and a thread that has slept long enough runs.
SpecGateFair == SpecGate /\ WF_vars(Tick) /\ WF_vars(auto_close_gate)

\* Uploads handled one at a time by one worker, with the registry, the log and the
\* store's faults; the clock stands still.
FirstTask == CHOOSE t \in Tasks : \A u \in Tasks : t <= u

Alone(t) == t = FirstTask /\ \A u \in Tasks \ {t} : pc[u] = "idle"

NextUpload ==
    \/ login
    \/ logout
    \/ dashboard
    \/ deliver
    \/ store_fault
    \/ \E t \in Tasks : Alone(t) /\ detection_begin(t)
    \/ \E t \in Tasks : get_yolo_model_load(t)
    \/ \E t \in Tasks : process_upload(t)
    \/ \E t \in Tasks : decide(t)

SpecUpload == Init /\ [][NextUpload]_vars

\* Uploads handled concurrently, on an empty registry, while time passes.
NextModel ==
    \/ login
    \/ deliver
    \/ Tick
    \/ \E t \in Tasks : detection_begin(t)
    \/ \E t \in Tasks : get_yolo_model_load(t)
    \/ \E t \in Tasks : process_upload(t)
    \/ \E t \in Tasks : decide(t)

SpecModel == Init /\ [][NextModel]_vars

\* The normalisation of one text drawn from NormInputs.
InitNormalize ==
    /\ gate_state = [is_open |-> FALSE]
    /\ timers = <<>>
    /\ elapsed = AUTO_CLOSE_DELAY
    /\ session = {}
    /\ response = NoResponse
    /\ employees = {}
    /\ plates = {}
    /\ next_id = 1
    /\ access_logs = <<>>
    /\ store = "ok"
    /\ model_file \in BOOLEAN
    /\ model = None
    /\ model_loads = 0
    /\ pc = [t \in Tasks |-> "idle"]
    /\ local = [t \in Tasks |-> NoLocals]
    /\ timestamp = [t \in Tasks |-> None]
    /\ norm_in \in NormInputs
    /\ norm_out = None
    /\ norm_twice = None
    /\ scan_in = <<>>
    /\ scan_out = None

NextNormalize == normalize_once \/ normalize_again

SpecNormalize == InitNormalize /\ [][NextNormalize]_vars

\* The crop loop run on one answer of the detector drawn from Detections.
InitPipeline ==
    /\ gate_state = [is_open |-> FALSE]
    /\ timers = <<>>
    /\ elapsed = AUTO_CLOSE_DELAY
    /\ session = {}
    /\ response = NoResponse
    /\ employees = {}
    /\ plates = {}
    /\ next_id = 1
    /\ access_logs = <<>>
    /\ store = "ok"
    /\ model_file \in BOOLEAN
    /\ model = None
    /\ model_loads = 0
    /\ pc = [t \in Tasks |-> "idle"]
    /\ local = [t \in Tasks |-> NoLocals]
    /\ timestamp = [t \in Tasks |-> None]
    /\ norm_in = <<>>
    /\ norm_out = None
    /\ norm_twice = None
    /\ scan_in \in Detections
    /\ scan_out = None

NextPipeline == scan_boxes

SpecPipeline == InitPipeline /\ [][NextPipeline]_vars

(***************************************************************************)
(* C1: for triggers at t0 < ... < tn the gate is open at every instant     *)
(* from t0 until tn + AUTO_CLOSE_DELAY: while less than the delay has      *)
(* passed since the most recent activate_gate(), the flag is set.          *)
(***************************************************************************)
C1_OpenUntilDelayAfterLastTrigger ==
    elapsed < AUTO_CLOSE_DELAY => gate_state.is_open

(***************************************************************************)
(* C2: an open gate is eventually closed again, when time passes and the   *)
(* auto-close threads are scheduled.                                       *)
(***************************************************************************)
C2_GateEventuallyCloses == gate_state.is_open ~> ~gate_state.is_open

C2_Witness == gate_state.is_open /\ timers # <<>> /\ elapsed = AUTO_CLOSE_DELAY

(***************************************************************************)
(* Steps of the /detection handler, as the claims below speak of them.     *)
(***************************************************************************)
\* Task t runs the decision stage in this step.
DecideStep(t) == pc[t] = "decide" /\ pc'[t] = "idle"

\* Task t runs some stage of an upload in this step.
UploadStep(t) == pc'[t] # pc[t]

\* The plate is mapped to an employee who exists.
Registered(plate) ==
    \E p \in plates : p.plate_number = plate /\ \E e \in employees : e.id = p.employee_id

RegisteredTo(plate, id) ==
    \E p \in plates : /\ p.plate_number = plate
                      /\ p.employee_id = id
                      /\ \E e \in employees : e.id = id

\* The response is the decision of an upload, with the given status.
Decided(r, status) ==
    r # NoResponse /\ r[1].route = "detection" /\ r[1].http = 200 /\ r[1].body.status = status

(***************************************************************************)
(* C3: while the store works, a lookup hit appends exactly one ENTRY row    *)
(* with the matched employee id, the plate text and "Automated Entry", and *)
(* a lookup miss appends exactly one DENIED row with no employee id, the   *)
(* plate text and "Unknown Vehicle"; an upload with absent plate text      *)
(* appends nothing.                                                        *)
(***************************************************************************)
C3_LogPerDecision ==
    [][\A t \in Tasks : DecideStep(t) =>
        LET text == local[t].text
        IN  /\ text = None => access_logs' = access_logs
            /\ (text # None /\ store = "ok" /\ Registered(text[1])) =>
                  \E id \in EmployeeIds :
                      /\ RegisteredTo(text[1], id)
                      /\ access_logs' = Append(access_logs,
                            [employee_id |-> id, plate_number |-> text[1],
                             action |-> "ENTRY", details |-> "Automated Entry"])
            /\ (text # None /\ store = "ok" /\ ~Registered(text[1])) =>
                  access_logs' = Append(access_logs,
                        [employee_id |-> NULL, plate_number |-> text[1],
                         action |-> "DENIED", details |-> "Unknown Vehicle"])
      ]_vars

C3_Witness ==
    /\ Decided(response, "FAILED")
    /\ \E i \in 1..Len(access_logs) : access_logs[i].action = "ENTRY"
    /\ \E i \in 1..Len(access_logs) : access_logs[i].action = "DENIED"

(***************************************************************************)
(* C4: a step of an upload calls activate_gate() exactly once when it is   *)
(* the decision stage and the lookup returns an employee, and otherwise    *)
(* leaves the flag and the armed timers as they are; a decision DENIED or  *)
(* FAILED leaves them unchanged; gate_triggered is true exactly in a       *)
(* decision GRANTED.                                                       *)
(***************************************************************************)
C4_TriggerOnlyOnHit ==
    /\ [][\A t \in Tasks : UploadStep(t) =>
            /\ IF /\ DecideStep(t)
                  /\ local[t].text # None
                  /\ store # "unreachable"
                  /\ Registered(local[t].text[1])
               THEN /\ gate_state'.is_open
                    /\ timers' = Append(timers, AUTO_CLOSE_DELAY)
               ELSE UNCHANGED <<gate_state, timers, elapsed>>
            /\ (Decided(response', "DENIED") \/ Decided(response', "FAILED")) =>
                    UNCHANGED <<gate_state, timers, elapsed>>
        ]_vars
    /\ [](\A status \in {"GRANTED", "DENIED", "FAILED"} :
            Decided(response, status) =>
                (response[1].body.gate_triggered <=> status = "GRANTED"))

C4_Witness ==
    /\ Decided(response, "DENIED")
    /\ gate_state.is_open
    /\ Len(timers) = 1

(***************************************************************************)
(* C5: the status of a decision is FAILED, with the message "No Plate      *)
(* Detected", iff the plate text is absent, GRANTED iff it is present and  *)
(* mapped to an employee, DENIED iff it is present and not mapped; the     *)
(* decision stage of an upload, the store working, yields one of the       *)
(* three.                                                                  *)
(***************************************************************************)
C5_StatusIsFunctionOfTextAndRegistry ==
    [][\A t \in Tasks : DecideStep(t) =>
        LET text == local[t].text
            r == response'[1]
        IN  /\ store = "ok" => r.http = 200
            /\ r.http = 200 =>
                /\ r.body.status \in {"FAILED", "GRANTED", "DENIED"}
                /\ r.body.status = "FAILED" <=> text = None
                /\ r.body.status = "FAILED" => r.body.message = <<"No Plate Detected">>
                /\ r.body.status = "GRANTED" <=> (text # None /\ Registered(text[1]))
                /\ r.body.status = "DENIED" <=> (text # None /\ ~Registered(text[1]))
      ]_vars

C5_Witness ==
    /\ Decided(response, "GRANTED")
    /\ \E p \in plates : Some(p.plate_number) = response[1].body.text

(***************************************************************************)
(* C6: a plate text of 2 characters or fewer never leaves the pipeline:    *)
(* the decision stage is never entered with one, none is shown in a        *)
(* decision and none is written to the access log.                         *)
(***************************************************************************)
C6_ShortCandidatesDiscarded ==
    /\ \A t \in Tasks : local[t].text # None => Len(local[t].text[1]) >= 3
    /\ \A i \in 1..Len(access_logs) : Len(access_logs[i].plate_number) >= 3
    /\ \A status \in {"GRANTED", "DENIED", "FAILED"} :
            (Decided(response, status) /\ response[1].body.text # None) =>
                Len(response[1].body.text[1]) >= 3

C6_Witness ==
    \E t \in Tasks : pc[t] = "decide" /\ local[t].text = None /\ local[t].crop_img # None

(***************************************************************************)
(* C7: the pipeline never throws to its caller: no upload ends in an       *)
(* unhandled error raised by the detector call or by the crop loop.        *)
(***************************************************************************)
C7_PipelineNeverThrows ==
    ~(/\ response # NoResponse
      /\ response[1].route = "detection"
      /\ response[1].http = 500
      /\ response[1].body \in {"detector", "cv2.error"})

(***************************************************************************)
(* C8: when the store fails during the lookup or during the log write,     *)
(* the upload ends in an operational error, not in a decision, and no row  *)
(* is appended to the access log.                                          *)
(***************************************************************************)
C8_StoreFailureSurfaces ==
    [][\A t \in Tasks : (DecideStep(t) /\ local[t].text # None /\ store # "ok") =>
            /\ response'[1].http = 500
            /\ response'[1].body = "sqlite3.OperationalError"
            /\ access_logs' = access_logs
      ]_vars

C8_Witness ==
    /\ response # NoResponse
    /\ response[1].route = "detection"
    /\ response[1].http = 500
    /\ response[1].body = "sqlite3.OperationalError"
    /\ store = "unreachable"

(***************************************************************************)
(* C9: the detector is constructed at most once over the life of the       *)
(* process, also when several requests use it for the first time together. *)
(***************************************************************************)
C9_ModelLoadedAtMostOnce == model_loads <= 1

(***************************************************************************)
(* C10: normalisation is idempotent, returns an already normalised text    *)
(* unchanged, and turns "ab-12 34!" into "AB1234".                         *)
(***************************************************************************)
IsNormalized(s) == \A i \in 1..Len(s) : s[i] \in PlateChars

C10_NormalizeIdempotent ==
    /\ norm_twice # None => norm_twice = norm_out
    /\ (norm_out # None /\ IsNormalized(norm_in)) => norm_out[1] = norm_in
    /\ (norm_out # None /\ norm_in = ExampleRaw) => norm_out[1] = ExampleNormal

C10_Witness ==
    /\ norm_twice # None
    /\ norm_in # norm_out[1]
    /\ norm_out[1] # <<>>

(***************************************************************************)
(* C11: every plate text in the plates table, in a row of the access log   *)
(* or held by a request as the key of the registry lookup consists only of *)
(* the characters A-Z and 0-9, whatever the OCR service answered and       *)
(* whatever was typed into the registration form.                          *)
(***************************************************************************)
C11_PlateTextsNormalized ==
    /\ \A p \in plates : IsNormalized(p.plate_number)
    /\ \A i \in 1..Len(access_logs) : IsNormalized(access_logs[i].plate_number)
    /\ \A t \in Tasks : local[t].text # None => IsNormalized(local[t].text[1])

C11_Witness ==
    /\ \E p \in plates : p.plate_number = <<"A", "B", "1">>
    /\ \E i \in 1..Len(access_logs) : access_logs[i].plate_number = <<"X", "Y", "2">>
    /\ \E t \in Tasks : pc[t] = "decide" /\ local[t].text = Some(<<"A", "B", "1">>)

(***************************************************************************)
(* C12: a request to /api/trigger_gate from a session without a user is    *)
(* answered 401 "error" and leaves the flag and the armed timers as they   *)
(* are; one from a session with a user calls activate_gate() and is        *)
(* answered "opened"; and among the gate's routes no other step arms a     *)
(* timer.                                                                  *)
(***************************************************************************)
TriggerRequestStep ==
    response = NoResponse /\ response' # NoResponse /\ response'[1].route = "api_trigger_gate"

C12_ManualTriggerPrivileged ==
    [][/\ TriggerRequestStep =>
            IF "user" \in session
            THEN /\ response'[1].http = 200
                 /\ response'[1].body = "opened"
                 /\ gate_state'.is_open
                 /\ timers' = Append(timers, AUTO_CLOSE_DELAY)
                 /\ elapsed' = 0
            ELSE /\ response'[1].http = 401
                 /\ response'[1].body = "error"
                 /\ UNCHANGED <<gate_state, timers, elapsed>>
       /\ (Len(timers') > Len(timers) \/ (gate_state'.is_open /\ ~gate_state.is_open)) =>
            (TriggerRequestStep /\ "user" \in session)
      ]_vars

C12_Witness ==
    /\ response # NoResponse
    /\ response[1].route = "api_trigger_gate"
    /\ response[1].http = 401
    /\ gate_state.is_open
    /\ timers # <<>>

(***************************************************************************)
(* C13: the access log is append-only: every step leaves each row of the   *)
(* log in its place and unchanged, and adds at most one row after them.    *)
(***************************************************************************)
C13_LogAppendOnly ==
    [][/\ Len(access_logs') \in {Len(access_logs), Len(access_logs) + 1}
       /\ \A i \in 1..Len(access_logs) : access_logs'[i] = access_logs[i]
      ]_vars

\* Two rows, the older one the entry of an employee deleted since.
C13_Witness ==
    /\ Len(access_logs) = 2
    /\ access_logs[1].action = "ENTRY"
    /\ \A e \in employees : e.id # access_logs[1].employee_id
    /\ \A p \in plates : p.plate_number # access_logs[1].plate_number

(***************************************************************************)
(* C14: at any time at most one auto-close timer is armed: the number of   *)
(* _auto_close_gate threads still asleep never exceeds one, however many   *)
(* triggers are issued.                                                    *)
(***************************************************************************)
C14_AtMostOneTimerArmed == Len(timers) <= 1

(***************************************************************************)
(* The boxes of one answer of the detector, as C15 and C16 speak of them.  *)
(***************************************************************************)
\* The box has a crop of non-zero area.
IsCropped(box) == ~IsEmptyCrop(box.shape)

\* The recognition of the box succeeds with a normalised text longer than 2.
Recognised(box) ==
    IsCropped(box) /\ box.ocr.kind = "parsed" /\ Len(Normalize(box.ocr.text)) > 2

\* The position of the first such box, 0 when there is none.
FirstRecognised(boxes) ==
    IF \E i \in 1..Len(boxes) : Recognised(boxes[i])
    THEN CHOOSE i \in 1..Len(boxes) :
            Recognised(boxes[i]) /\ \A j \in 1..(i - 1) : ~Recognised(boxes[j])
    ELSE 0

(***************************************************************************)
(* C15: the crop loop returns the normalised text of the first box, in the *)
(* detector's order, whose recognition succeeds with a normalised length   *)
(* above 2, having sent to the OCR service only cropped boxes up to that   *)
(* one, in order, and none after it; boxes whose recognition fails or      *)
(* gives a short text are passed over, and when none is left the text is   *)
(* absent.                                                                 *)
(***************************************************************************)
IsPrefix(s, t) == Len(s) <= Len(t) /\ \A i \in 1..Len(s) : s[i] = t[i]

C15_FirstRecognisedBoxWins ==
    scan_out # None =>
        LET k == FirstRecognised(scan_in)
            last == IF k = 0 THEN Len(scan_in) ELSE k
        IN  /\ scan_out[1].text =
                    IF k = 0 THEN None ELSE Some(Normalize(scan_in[k].ocr.text))
            /\ IsPrefix(scan_out[1].asked, SelectSeq(SubSeq(scan_in, 1, last), IsCropped))

(***************************************************************************)
(* C16: when no box is recognised the crop loop returns, with an absent    *)
(* text and with the crop file name exactly when some box had a crop of    *)
(* non-zero area; for no boxes at all it returns an absent text and no     *)
(* crop file name.                                                         *)
(***************************************************************************)
C16_NoCandidateKeepsLastCrop ==
    (scan_out # None /\ FirstRecognised(scan_in) = 0) =>
        /\ scan_out[1].error = None
        /\ scan_out[1].text = None
        /\ scan_out[1].crop_img =
                IF \E i \in 1..Len(scan_in) : IsCropped(scan_in[i])
                THEN Some("crop") ELSE None

(***************************************************************************)
(* C17: the file names of two uploads never collide: two requests being    *)
(* processed at once never hold the same timestamp, from which both the    *)
(* full-image name and the crop name of a request are made.                *)
(***************************************************************************)
C17_ArtifactNamesDistinct ==
    \A t, u \in Tasks :
        (t # u /\ timestamp[t] # None /\ timestamp[u] # None) => timestamp[t] # timestamp[u]

(***************************************************************************)
(* C18: after any sequence of registrations and deletions every row of the *)
(* plates table refers to exactly one existing employee and no plate text  *)
(* is the key of two rows; a registration whose plate is already in the    *)
(* table fails and leaves both tables as they were; a deletion removes the *)
(* employee with the given id and every plates row referring to it, and    *)
(* nothing else.                                                           *)
(***************************************************************************)
DashboardStep ==
    response = NoResponse /\ response' # NoResponse /\ response'[1].route = "dashboard"

C18_RegistryConsistent ==
    /\ [](/\ \A p \in plates : Cardinality({e \in employees : e.id = p.employee_id}) = 1
          /\ \A p, q \in plates : p.plate_number = q.plate_number => p = q)
    /\ [][DashboardStep =>
            /\ response'[1].http = 500 => UNCHANGED <<employees, plates>>
            /\ (response'[1].http = 302 /\ response'[1].body = "dashboard") =>
                    \E id \in EmployeeIds :
                        /\ employees' = {e \in employees : e.id # id}
                        /\ plates' = {p \in plates : p.employee_id # id}
            /\ \A e \in employees' \ employees :
                    \/ plates' = plates
                    \/ \E p \in plates' \ plates :
                            p.employee_id = e.id /\ plates' = plates \cup {p}
        ]_vars

\* A registration refused for its plate, which is registered to the one employee.
C18_Witness ==
    /\ response # NoResponse
    /\ response[1].route = "dashboard"
    /\ response[1].http = 500
    /\ response[1].body = "sqlite3.IntegrityError"
    /\ Cardinality(employees) = 1
    /\ Cardinality(plates) = 1

(***************************************************************************)
(* C19: an upload never opens the gate without an audit record: a step of  *)
(* an upload that calls activate_gate() also appends to the access log one *)
(* ENTRY row with the plate text and the employee the plate is registered  *)
(* to, also when the store refuses the write.                              *)
(***************************************************************************)
C19_NoOpenWithoutAudit ==
    [][\A t \in Tasks : (UploadStep(t) /\ Len(timers') > Len(timers)) =>
            \E id \in EmployeeIds :
                /\ RegisteredTo(local[t].text[1], id)
                /\ access_logs' = Append(access_logs,
                        [employee_id |-> id, plate_number |-> local[t].text[1],
                         action |-> "ENTRY", details |-> "Automated Entry"])
      ]_vars

(***************************************************************************)
(* C20: /api/gate_status is read-only: it answers with the flag as it is   *)
(* at that moment, leaves the flag, the armed timers and the time since    *)
(* the last trigger unchanged, and can be answered in every state in which *)
(* a request can be served, whatever timers are pending and whoever asks.  *)
(***************************************************************************)
StatusRequestStep ==
    response = NoResponse /\ response' # NoResponse /\ response'[1].route = "api_gate_status"

C20_StatusReadOnly ==
    /\ [][StatusRequestStep =>
            /\ response'[1].http = 200
            /\ response'[1].body = gate_state
            /\ UNCHANGED <<gate_state, timers, elapsed>>
        ]_vars
    /\ [](response = NoResponse => ENABLED api_gate_status)

\* The open flag reported while two timers are pending, one of them due.
C20_Witness ==
    /\ response # NoResponse
    /\ response[1].route = "api_gate_status"
    /\ response[1].body.is_open
    /\ gate_state.is_open
    /\ Len(timers) = 2
    /\ timers[1] = 0

====
